---- MODULE Spec2Model ----
(***************************************************************************)
(* The GBK encoding handler of src/enc/yp_gbk.c: the codepoint decoder     *)
(* yp_gbk_codepoint and the four queries of the yp_encoding_gbk descriptor *)
(* (char_width, alpha_char, alnum_char, isupper_char).                     *)
(*                                                                         *)
(* A call gets a pointer c and a length n.  The memory the pointer         *)
(* addresses is the sequence mem; the caller's buffer is its first len     *)
(* bytes; the window of a call is (mem + cursor, len - cursor).  Bytes of  *)
(* mem at or after len are not part of the buffer: whatever they hold is   *)
(* what a read past the window would find.                                 *)
(***************************************************************************)
EXTENDS Integers, Sequences, FiniteSets

VARIABLES mem, len, cursor, op, width, codepoint, ret, reads, deleg, calls, stopped

vars == <<mem, len, cursor, op, width, codepoint, ret, reads, deleg, calls, stopped>>

(* ------------------------------ bounds --------------------------------- *)

\* Longest window handed to a single query.
MaxLen == 3

\* Longest buffer scanned by the lexer loop.
MaxScanLen == 3

Byte == 0..255

\* Bytes that follow the first two of a longer window.
TailBytes == {65, 161}

\* Bytes of the scanned buffers: an ASCII letter, the trail hole 0x7F, a
\* GBK/3 lead, a GBK/1 lead that is also a trail, and a byte that leads nothing.
ScanBytes == {65, 127, 129, 161, 255}

(* --------------------------- integer helpers --------------------------- *)

RECURSIVE BitOr(_, _)
\* x | y on non-negative ints.
BitOr(x, y) ==
    IF x = 0 THEN y
    ELSE IF y = 0 THEN x
    ELSE (IF (x % 2 = 1) \/ (y % 2 = 1) THEN 1 ELSE 0) + 2 * BitOr(x \div 2, y \div 2)

\* x << 8 on an int.
Shl8(x) == x * 256

\* (yp_gbk_codepoint_t) x : conversion to uint16_t.
ToCodepoint(x) == x % 65536

\* The byte that (const char) codepoint stores, as the ASCII provider reads it
\* back through (unsigned char).
ToChar(x) == x % 256

\* uc[i] for the window that starts at offset base of mem.
uc(m, base, i) == m[base + i + 1]

(* ------------------------- the five GBK bands -------------------------- *)

GBK1(b0, b1) == (b0 >= 161 /\ b0 <= 169) /\ (b1 >= 161 /\ b1 <= 254)

GBK2(b0, b1) == (b0 >= 176 /\ b0 <= 247) /\ (b1 >= 161 /\ b1 <= 254)

GBK3(b0, b1) == (b0 >= 129 /\ b0 <= 160) /\ (b1 >= 64 /\ b1 <= 254) /\ (b1 # 127)

GBK4_overlap(b0, b1) == (b0 >= 168 /\ b0 <= 254) /\ (b1 >= 64 /\ b1 <= 160) /\ (b1 # 127)

GBK4_nohole(b0, b1) == (b0 >= 170 /\ b0 <= 254) /\ (b1 >= 64 /\ b1 <= 160)

GBK4(b0, b1) == (b0 >= 170 /\ b0 <= 254) /\ (b1 >= 64 /\ b1 <= 160) /\ (b1 # 127)

GBK5(b0, b1) == (b0 >= 168 /\ b0 <= 169) /\ (b1 >= 64 /\ b1 <= 160) /\ (b1 # 127)

\* The lead-byte halves of the band tests: C's && reads uc[1] only after one
\* of them has held.
LeadInBand(b0) ==
    \/ (b0 >= 161 /\ b0 <= 169)
    \/ (b0 >= 176 /\ b0 <= 247)
    \/ (b0 >= 129 /\ b0 <= 160)
    \/ (b0 >= 170 /\ b0 <= 254)
    \/ (b0 >= 168 /\ b0 <= 169)

(* ------------------------------ decoder -------------------------------- *)

\* Bug variant: the single-byte test is off by one (0x7F falls through).
yp_gbk_codepoint_lt7f(m, base, n) ==
    LET b0 == uc(m, base, 0) IN
    IF b0 < 127
    THEN [width |-> 1, codepoint |-> b0, reads |-> {0}]
    ELSE IF (n > 1) /\ LeadInBand(b0) /\
            LET b1 == uc(m, base, 1) IN
            GBK1(b0, b1) \/ GBK2(b0, b1) \/ GBK3(b0, b1) \/ GBK4(b0, b1) \/ GBK5(b0, b1)
    THEN [width |-> 2,
          codepoint |-> ToCodepoint(BitOr(Shl8(b0), uc(m, base, 1))),
          reads |-> {0, 1}]
    ELSE [width |-> 0, codepoint |-> 0,
          reads |-> IF (n > 1) /\ LeadInBand(b0) THEN {0, 1} ELSE {0}]

\* Bug variant: the (n > 1) guard is missing.
yp_gbk_codepoint_noguard(m, base, n) ==
    LET b0 == uc(m, base, 0) IN
    IF b0 < 128
    THEN [width |-> 1, codepoint |-> b0, reads |-> {0}]
    ELSE IF LeadInBand(b0) /\
            LET b1 == uc(m, base, 1) IN
            GBK1(b0, b1) \/ GBK2(b0, b1) \/ GBK3(b0, b1) \/ GBK4(b0, b1) \/ GBK5(b0, b1)
    THEN [width |-> 2,
          codepoint |-> ToCodepoint(BitOr(Shl8(b0), uc(m, base, 1))),
          reads |-> {0, 1}]
    ELSE [width |-> 0, codepoint |-> 0,
          reads |-> IF LeadInBand(b0) THEN {0, 1} ELSE {0}]

\* Bug variant: the codepoint of a pair is the lead byte alone.
yp_gbk_codepoint_noshift(m, base, n) ==
    LET b0 == uc(m, base, 0) IN
    IF b0 < 128
    THEN [width |-> 1, codepoint |-> b0, reads |-> {0}]
    ELSE IF (n > 1) /\ LeadInBand(b0) /\
            LET b1 == uc(m, base, 1) IN
            GBK1(b0, b1) \/ GBK2(b0, b1) \/ GBK3(b0, b1) \/ GBK4(b0, b1) \/ GBK5(b0, b1)
    THEN [width |-> 2,
          codepoint |-> ToCodepoint(BitOr(b0, uc(m, base, 1))),
          reads |-> {0, 1}]
    ELSE [width |-> 0, codepoint |-> 0,
          reads |-> IF (n > 1) /\ LeadInBand(b0) THEN {0, 1} ELSE {0}]

\* yp_gbk_codepoint(c, n, &width): the returned codepoint, *width, and the
\* window indices it dereferences.  *uc is read before n is looked at; uc[1]
\* is read by a band test whose lead-byte half held, and only after (n > 1).
yp_gbk_codepoint(m, base, n) ==
    LET b0 == uc(m, base, 0) IN
    IF b0 < 128
    THEN [width |-> 1, codepoint |-> b0, reads |-> {0}]
    ELSE IF (n > 1) /\ LeadInBand(b0) /\
            LET b1 == uc(m, base, 1) IN
            GBK1(b0, b1) \/ GBK2(b0, b1) \/ GBK3(b0, b1) \/ GBK4(b0, b1) \/ GBK5(b0, b1)
    THEN [width |-> 2,
          codepoint |-> ToCodepoint(BitOr(Shl8(b0), uc(m, base, 1))),
          reads |-> {0, 1}]
    ELSE [width |-> 0, codepoint |-> 0,
          reads |-> IF (n > 1) /\ LeadInBand(b0) THEN {0, 1} ELSE {0}]

(* ------------------------- the ASCII provider -------------------------- *)

\* yp_encoding_ascii_alpha_char / _alnum_char / _isupper_char classify the
\* byte their pointer addresses.
ascii_isupper(b) == b >= 65 /\ b <= 90

ascii_alpha(b) == IF (b >= 65 /\ b <= 90) \/ (b >= 97 /\ b <= 122) THEN 1 ELSE 0

ascii_alnum(b) == IF (b >= 48 /\ b <= 57) \/ ascii_alpha(b) = 1 THEN 1 ELSE 0

\* No call to the provider / the window (&value, length) handed to it.
NoCall == [called |-> FALSE, value |-> 0, length |-> 0]

AsciiCall(v, n) == [called |-> TRUE, value |-> v, length |-> n]

(* ------------------------------ handler -------------------------------- *)

yp_encoding_gbk_char_width(m, base, n) ==
    LET d == yp_gbk_codepoint(m, base, n) IN
    [ret |-> d.width, dec |-> d, deleg |-> NoCall]

\* Bug variant: every nonzero width is delegated.
yp_encoding_gbk_alpha_char_anywidth(m, base, n) ==
    LET d == yp_gbk_codepoint(m, base, n) IN
    IF d.width >= 1
    THEN [ret |-> ascii_alpha(ToChar(d.codepoint)), dec |-> d,
          deleg |-> AsciiCall(ToChar(d.codepoint), n)]
    ELSE [ret |-> 0, dec |-> d, deleg |-> NoCall]

yp_encoding_gbk_alpha_char(m, base, n) ==
    LET d == yp_gbk_codepoint(m, base, n) IN
    IF d.width = 1
    THEN [ret |-> ascii_alpha(ToChar(d.codepoint)), dec |-> d,
          deleg |-> AsciiCall(ToChar(d.codepoint), n)]
    ELSE [ret |-> 0, dec |-> d, deleg |-> NoCall]

yp_encoding_gbk_alnum_char(m, base, n) ==
    LET d == yp_gbk_codepoint(m, base, n) IN
    IF d.width = 1
    THEN [ret |-> ascii_alnum(ToChar(d.codepoint)), dec |-> d,
          deleg |-> AsciiCall(ToChar(d.codepoint), n)]
    ELSE [ret |-> 0, dec |-> d, deleg |-> NoCall]

\* Bug variant: every nonzero width is delegated.
yp_encoding_gbk_isupper_char_anywidth(m, base, n) ==
    LET d == yp_gbk_codepoint(m, base, n) IN
    IF d.width >= 1
    THEN [ret |-> ascii_isupper(ToChar(d.codepoint)), dec |-> d,
          deleg |-> AsciiCall(ToChar(d.codepoint), n)]
    ELSE [ret |-> FALSE, dec |-> d, deleg |-> NoCall]

yp_encoding_gbk_isupper_char(m, base, n) ==
    LET d == yp_gbk_codepoint(m, base, n) IN
    IF d.width = 1
    THEN [ret |-> ascii_isupper(ToChar(d.codepoint)), dec |-> d,
          deleg |-> AsciiCall(ToChar(d.codepoint), n)]
    ELSE [ret |-> FALSE, dec |-> d, deleg |-> NoCall]

(* --------------------------- state machine ----------------------------- *)

\* k copies of the byte t.
Fill(t, k) == [i \in 1..k |-> t]

Max(a, b) == IF a >= b THEN a ELSE b

\* The window of the current position.
n_remaining == len - cursor

\* What a call leaves behind: its name, the decoder's outputs, its return
\* value and the window it handed to the ASCII provider.
Record(name, r) ==
    /\ op' = name
    /\ width' = r.dec.width
    /\ codepoint' = r.dec.codepoint
    /\ reads' = r.dec.reads
    /\ ret' = r.ret
    /\ deleg' = r.deleg

\* A window of 0..MaxLen bytes at the start of mem.  The two bytes at the
\* pointer range over all values, whether the window covers them or not.
Init ==
    /\ len \in 0..MaxLen
    /\ \E b0 \in Byte, b1 \in Byte, t \in TailBytes :
          mem = <<b0, b1>> \o Fill(t, Max(len, 2) - 2)
    /\ cursor = 0
    /\ op = "none"
    /\ width = 0
    /\ codepoint = 0
    /\ ret = 0
    /\ reads = {}
    /\ deleg = NoCall
    /\ calls = 0
    /\ stopped = FALSE

CharWidth ==
    /\ Record("char_width", yp_encoding_gbk_char_width(mem, cursor, n_remaining))
    /\ UNCHANGED <<mem, len, cursor, calls, stopped>>

AlphaChar ==
    /\ Record("alpha_char", yp_encoding_gbk_alpha_char(mem, cursor, n_remaining))
    /\ UNCHANGED <<mem, len, cursor, calls, stopped>>

AlnumChar ==
    /\ Record("alnum_char", yp_encoding_gbk_alnum_char(mem, cursor, n_remaining))
    /\ UNCHANGED <<mem, len, cursor, calls, stopped>>

IsupperChar ==
    /\ Record("isupper_char", yp_encoding_gbk_isupper_char(mem, cursor, n_remaining))
    /\ UNCHANGED <<mem, len, cursor, calls, stopped>>

Next == CharWidth \/ AlphaChar \/ AlnumChar \/ IsupperChar

Spec == Init /\ [][Next]_vars

(* ------------------------------ the scan ------------------------------- *)

\* Every sequence of k bytes of S.
RECURSIVE SeqsOf(_, _)
SeqsOf(S, k) ==
    IF k = 0 THEN {<<>>}
    ELSE {Append(s, b) : s \in SeqsOf(S, k - 1), b \in S}

\* A buffer of 1..MaxScanLen bytes, and the byte that follows it in memory.
InitScan ==
    /\ len \in 1..MaxScanLen
    /\ mem \in SeqsOf(ScanBytes, len + 1)
    /\ cursor = 0
    /\ op = "none"
    /\ width = 0
    /\ codepoint = 0
    /\ ret = 0
    /\ reads = {}
    /\ deleg = NoCall
    /\ calls = 0
    /\ stopped = FALSE

\* One turn of the lexer's loop: while cursor < len, ask char_width for the
\* rest of the buffer; a 0 stops the scan, anything else moves the cursor.
ScanAdvance ==
    /\ cursor < len
    /\ ~stopped
    /\ LET r == yp_encoding_gbk_char_width(mem, cursor, n_remaining) IN
          /\ r.ret # 0
          /\ Record("char_width", r)
          /\ cursor' = cursor + r.ret
    /\ calls' = calls + 1
    /\ UNCHANGED <<mem, len, stopped>>

ScanStop ==
    /\ cursor < len
    /\ ~stopped
    /\ LET r == yp_encoding_gbk_char_width(mem, cursor, n_remaining) IN
          /\ r.ret = 0
          /\ Record("char_width", r)
    /\ stopped' = TRUE
    /\ calls' = calls + 1
    /\ UNCHANGED <<mem, len, cursor>>

NextScan == ScanAdvance \/ ScanStop

SpecScan == InitScan /\ [][NextScan]_vars

(* ------------------------------ claims --------------------------------- *)

\* Under Spec the cursor stays 0: the window of every call is (mem, len).
Called == op # "none"

\* The five bands as the encoding's range table states them.
TableBand(k, b0, b1) ==
    CASE k = 1 -> b0 \in 161..169 /\ b1 \in 161..254
      [] k = 2 -> b0 \in 176..247 /\ b1 \in 161..254
      [] k = 3 -> b0 \in 129..160 /\ b1 \in (64..254) \ {127}
      [] k = 4 -> b0 \in 170..254 /\ b1 \in (64..160) \ {127}
      [] k = 5 -> b0 \in 168..169 /\ b1 \in (64..160) \ {127}

InTable(b0, b1) == \E k \in 1..5 : TableBand(k, b0, b1)

\* The bands whose range condition, as written in the decoder, the pair meets.
DecoderBands(b0, b1) ==
    {k \in 1..5 :
        CASE k = 1 -> GBK1(b0, b1)
          [] k = 2 -> GBK2(b0, b1)
          [] k = 3 -> GBK3(b0, b1)
          [] k = 4 -> GBK4(b0, b1)
          [] k = 5 -> GBK5(b0, b1)}

\* C1: a call reads only indices 0..n-1 of its window, for every n >= 0
\* (nothing at all when n = 0, index 1 only when n > 1).
C1_ReadsInsideWindow == Called => reads \subseteq 0..(len - 1)

\* C1, restricted to the windows the lexer hands over (n >= 1).
C1_ReadsInsideNonEmptyWindow == (Called /\ len >= 1) => reads \subseteq 0..(len - 1)

\* C2: with n >= 1 and a first byte >= 0x80 the decoder gives width 2 and
\* codepoint b0*256 + b1 exactly when n > 1 and (b0, b1) is in one of the five
\* bands of the table, and width 0, codepoint 0 otherwise.
C2_DoubleByteDecode ==
    (Called /\ len >= 1 /\ mem[1] >= 128) =>
        IF len > 1 /\ InTable(mem[1], mem[2])
        THEN width = 2 /\ codepoint = mem[1] * 256 + mem[2]
        ELSE width = 0 /\ codepoint = 0

\* 0xB0 0xA1 decodes to width 2, codepoint 0xB0A1.
C2_Witness ==
    /\ op = "char_width" /\ len = 2 /\ mem[1] = 176 /\ mem[2] = 161
    /\ width = 2 /\ codepoint = 45217

\* C3: a window of n >= 1 bytes whose first byte b is < 0x80 has char_width 1
\* and codepoint b, whatever follows b.
C3_SingleByte ==
    (Called /\ len >= 1 /\ mem[1] < 128) =>
        /\ width = 1
        /\ codepoint = mem[1]
        /\ (op = "char_width" => ret = 1)

\* 0x7F followed by a byte that could trail a pair.
C3_Witness ==
    /\ op = "char_width" /\ len = 3 /\ mem[1] = 127 /\ mem[2] = 161
    /\ ret = 1 /\ codepoint = 127

\* C4: char_width of a one-byte window whose byte is >= 0x80 is 0.
C4_TruncatedLead ==
    (op = "char_width" /\ len = 1 /\ mem[1] >= 128) => ret = 0

\* A GBK/1 lead at the end of the buffer, a valid trail right behind it in
\* memory.
C4_Witness ==
    /\ op = "char_width" /\ len = 1 /\ mem[1] = 161 /\ mem[2] = 161 /\ ret = 0

\* C5: char_width is 0 for every lead >= 0x80 followed by the trail 0x7F,
\* n >= 2.
C5_TrailHole ==
    (op = "char_width" /\ len >= 2 /\ mem[1] >= 128 /\ mem[2] = 127) => ret = 0

\* Lead 0x81, trail 0x7F.
C5_Witness ==
    /\ op = "char_width" /\ len = 2 /\ mem[1] = 129 /\ mem[2] = 127 /\ ret = 0

\* C6: isupper_char is the ASCII provider's answer for the first byte when
\* that byte is < 0x80, and false when it is >= 0x80, for every n >= 1.
C6_IsupperAgrees ==
    (op = "isupper_char" /\ len >= 1) =>
        ret = (IF mem[1] < 128 THEN ascii_isupper(mem[1]) ELSE FALSE)

\* 'A' is upper case.
C6_Witness ==
    /\ op = "isupper_char" /\ len = 2 /\ mem[1] = 65 /\ ret = TRUE /\ deleg.called

\* C7: alpha_char and alnum_char return 0 and make no call to the ASCII
\* provider whenever the decoder's width is 2, which is so for every pair of
\* the five bands with n >= 2.
C7_DoubleByteNotAlpha ==
    (op \in {"alpha_char", "alnum_char"}) =>
        /\ (len >= 2 /\ InTable(mem[1], mem[2])) => width = 2
        /\ width = 2 => (ret = 0 /\ ~deleg.called)

\* A GBK/5 pair whose trail is an ASCII letter.
C7_Witness ==
    /\ op = "alpha_char" /\ len = 2 /\ mem[1] = 168 /\ mem[2] = 65
    /\ width = 2 /\ ret = 0

\* C8: a byte pair meets the range condition of at most one of GBK/1..GBK/5
\* as the decoder writes them, and an accepted pair that of exactly one.
C8_BandsDisjoint ==
    (Called /\ len >= 2) =>
        /\ Cardinality(DecoderBands(mem[1], mem[2])) <= 1
        /\ width = 2 => Cardinality(DecoderBands(mem[1], mem[2])) = 1

\* A GBK/5 pair: its lead is also a GBK/1 lead, its trail the last GBK/4 trail.
C8_Witness ==
    /\ op = "char_width" /\ len = 2 /\ mem[1] = 168 /\ mem[2] = 160
    /\ width = 2 /\ DecoderBands(mem[1], mem[2]) = {5}

\* C9: the window handed to the ASCII provider has length 1.
C9_OneByteDelegation == deleg.called => deleg.length = 1

\* C10: the scan keeps the cursor inside the buffer and makes at most len
\* calls to char_width.
C10_ScanBounded == cursor <= len /\ calls <= len

\* A double-byte character and a single byte: the scan ends at the buffer's
\* end after two calls.
C10_Witness ==
    /\ len = 3 /\ cursor = 3 /\ calls = 2 /\ ~stopped
    /\ mem[1] = 129 /\ mem[2] = 65 /\ mem[3] = 65

====
